---- MODULE Spec2Model ----
(***************************************************************************)
(* Model of power_analyzer.py: the calculator calculate_power, the         *)
(* renderer plot_waveforms and the top-level main program.                 *)
(*                                                                         *)
(* Python floats are modelled as decimal floating-point numbers            *)
(* [m |-> mantissa, e |-> exponent] of value m * 10^e, normalised to eight *)
(* significant digits (Base <= |m| < 10*Base, or m = 0 and e = 0).  Every  *)
(* arithmetic operation rounds its result to eight digits, as the IEEE     *)
(* operation rounds to 53 bits.  Infinities and NaN are not modelled, and  *)
(* neither is exponent overflow or underflow.  math.acos and math.tan are  *)
(* library functions: they are given by their values on the arguments the  *)
(* model supplies.  On every argument tuple of Arguments the outcome of    *)
(* calculate_power below (the exception raised, or each field of the       *)
(* dictionary returned) equals that of the Python function.                *)
(*                                                                         *)
(* Spec is the main program, one action per statement of the try block,    *)
(* the lines typed at the prompts drawn from LinesV, LinesI, LinesPf and    *)
(* LinesF, or the end of input.  CalcSpec calls calculate_power on its own. *)
(***************************************************************************)
EXTENDS Integers, Sequences, FiniteSets, TLC

VARIABLES
    pc,        \* the statement of the main program that runs next
    V,         \* the global V, I, pf and f of the main program: <<>> while
    I,         \*   unassigned, <<x>> once assigned the float x
    PF,
    f,
    results,   \* the global results: <<>> or <<the dictionary>>
    stdout,    \* the lines written to the console so far
    calls,     \* the argument tuples calculate_power was called with
    renders,   \* the argument tuples plot_waveforms was called with, and what
               \*   each call did
    raised,    \* the exception that reached the try statement, or "None"
    inputs,    \* calculator harness: the arguments <<V_rms, I_rms, pf, freq>>
    outcomes,  \* calculator harness: what each call with these arguments did
    other      \* calculator harness: the latest call with other arguments

vars == <<pc, V, I, PF, f, results, stdout, calls, renders, raised, inputs, outcomes, other>>

main_vars == <<pc, V, I, PF, f, results, stdout, calls, renders, raised>>

harness_vars == <<inputs, outcomes, other>>

Base == 10^7

F(m, e) == [m |-> m, e |-> e]

Zero == F(0, 0)

One == F(Base, -7)

Abs(x) == IF x < 0 THEN -x ELSE x

Sgn(x) == IF x < 0 THEN -1 ELSE IF x > 0 THEN 1 ELSE 0

(* <<q, r>> with a * b = q * Base + r and 0 <= r < Base, for mantissas     *)
(* 0 <= a, b < 10 * Base, computed on four-digit halves so that no         *)
(* intermediate value exceeds 32 bits.                                     *)
MulDivMod(a, b) ==
    LET a1   == a \div 10^4
        a0   == a % 10^4
        b1   == b \div 10^4
        b0   == b % 10^4
        mid  == a1 * b0 + a0 * b1
        rest == (mid % 10^3) * 10^4 + a0 * b0
    IN  <<a1 * b1 * 10 + mid \div 10^3 + rest \div Base, rest % Base>>

(* <<q, r>> with (q0 * b + r0) * 10^k = q * b + r and 0 <= r < b: k more   *)
(* digits of a long division by b.                                        *)
RECURSIVE LongDiv(_, _, _, _)
LongDiv(q0, r0, b, k) ==
    IF k = 0 THEN <<q0, r0>>
    ELSE LongDiv(q0 * 10 + (r0 * 10) \div b, (r0 * 10) % b, b, k - 1)

(* n / d rounded to the nearest integer, ties to even (n >= 0, d > 0),     *)
(* given as the pair <<n \div d, n % d>>.                                  *)
HalfEven(qr, d) ==
    IF 2 * qr[2] > d \/ (2 * qr[2] = d /\ qr[1] % 2 = 1) THEN qr[1] + 1 ELSE qr[1]

DivRound(n, d) == HalfEven(<<n \div d, n % d>>, d)

(* The float of value m * 10^e, rounded to eight digits.                   *)
RECURSIVE Norm(_, _)
Norm(m, e) ==
    IF m = 0 THEN Zero
    ELSE IF Abs(m) >= 10 * Base THEN Norm(Sgn(m) * DivRound(Abs(m), 10), e + 1)
    ELSE IF Abs(m) < Base THEN Norm(m * 10, e - 1)
    ELSE F(m, e)

FNeg(a) == F(-a.m, a.e)

\* a * b
FMul(a, b) ==
    IF a.m = 0 \/ b.m = 0 THEN Zero
    ELSE Norm(Sgn(a.m) * Sgn(b.m) * HalfEven(MulDivMod(Abs(a.m), Abs(b.m)), Base),
              a.e + b.e + 7)

\* a / b, for b # 0 (the callers raise ZeroDivisionError when b = 0)
FDiv(a, b) ==
    IF a.m = 0 THEN Zero
    ELSE LET n == Abs(a.m)
             d == Abs(b.m)
         IN  Norm(Sgn(a.m) * Sgn(b.m) * HalfEven(LongDiv(n \div d, n % d, d, 8), d),
                  a.e - b.e - 8)

\* a + b
FAdd(a, b) ==
    IF a.m = 0 THEN b
    ELSE IF b.m = 0 THEN a
    ELSE LET hi == IF a.e >= b.e THEN a ELSE b
             lo == IF a.e >= b.e THEN b ELSE a
             d  == hi.e - lo.e
         IN  IF d > 9 THEN hi
             ELSE IF d = 0 THEN Norm(hi.m + lo.m, hi.e)
             ELSE Norm(hi.m * 10 + Sgn(lo.m) * DivRound(Abs(lo.m), 10^(d - 1)), hi.e - 1)

\* a - b
FSub(a, b) == FAdd(a, FNeg(b))

\* a < b
FLt(a, b) == FSub(a, b).m < 0

\* a <= b
FLe(a, b) == FSub(a, b).m <= 0

\* k steps x -> (x + a / x) / 2 of Newton's iteration for the square root of a
RECURSIVE Newton(_, _, _)
Newton(a, x, k) ==
    IF k = 0 THEN x
    ELSE Newton(a, FMul(FAdd(x, FDiv(a, x)), F(5 * Base, -8)), k - 1)

\* math.sqrt(a), for a >= 0: correct to eight digits after eight steps from a
\* start within a factor of four of the root
sqrt(a) ==
    IF a.m = 0 THEN Zero
    ELSE Newton(a, IF a.e % 2 = 0 THEN F(5 * Base, a.e \div 2 - 4)
                   ELSE F(2 * Base, (a.e - 1) \div 2 - 3), 8)

\* round(a, 2)
round2(a) ==
    IF a.m = 0 \/ a.e >= -2 THEN a
    ELSE LET d == -2 - a.e
         IN  IF d > 8 THEN Zero
             ELSE Norm(Sgn(a.m) * DivRound(Abs(a.m), 10^d), -2)

\* math.pi
pi == F(31415927, -7)

\* math.acos(x), for the cosines the model supplies
acos(x) ==
    CASE x = F(50000000, -8) -> F(10471976, -7)
      [] x = F(80000000, -8) -> F(64350111, -8)
      [] x = F(94000000, -8) -> F(34816602, -8)
      [] x = F(95000000, -8) -> F(31756043, -8)
      [] x = F(96000000, -8) -> F(28379411, -8)
      [] x = One             -> Zero

\* math.tan(t), for the angles acos yields
tan(t) ==
    CASE t = F(10471976, -7) -> F(17320508, -7)
      [] t = F(64350111, -8) -> F(75000000, -8)
      [] t = F(34816602, -8) -> F(36295153, -8)
      [] t = F(31756043, -8) -> F(32868411, -8)
      [] t = F(28379411, -8) -> F(29166667, -8)
      [] t = Zero            -> Zero

\* math.degrees(t): t * (180 / pi)
degrees(t) == FMul(t, F(57295780, -6))

\* target_pf = 0.95
target_pf == F(95000000, -8)

\* the literal 1e6 that converts farads to microfarads
MicroPerUnit == F(Base, -1)

\* the literal 2
Two == F(2 * Base, -7)

Raise(exception) == [exc |-> exception, res |-> <<>>]

Return(value) == [exc |-> "None", res |-> <<value>>]

\* mutant: the upper limit tested with >=, so that pf = 1 is rejected
InvalidPf_unity(pf) == FLe(pf, Zero) \/ FLe(One, pf)

\* if pf <= 0 or pf > 1
InvalidPf(pf) == FLe(pf, Zero) \/ FLt(One, pf)

\* S = V_rms * I_rms
ApparentPower(V_rms, I_rms) == FMul(V_rms, I_rms)

\* P = S * pf
ActivePower(S, pf) == FMul(S, pf)

\* Q = S * math.sqrt(1 - pf**2)
ReactivePower(S, pf) == FMul(S, sqrt(FSub(One, FMul(pf, pf))))

\* mutant: the comparison with the target power factor left out
NeedsCorrection_any_pf(pf, P) == P.m > 0

\* if pf < target_pf and P > 0
NeedsCorrection(pf, P) == FLt(pf, target_pf) /\ P.m > 0

\* 2 * math.pi * freq * V_rms**2
Denominator(V_rms, freq) == FMul(FMul(FMul(Two, pi), freq), FMul(V_rms, V_rms))

\* mutant: the two tangents swapped
Capacitance_swapped(P, phi1, V_rms, freq) ==
    LET phi2 == acos(target_pf)
        C    == FDiv(FMul(P, FSub(tan(phi2), tan(phi1))), Denominator(V_rms, freq))
    IN  FMul(C, MicroPerUnit)

\* C = (P * (math.tan(phi1) - math.tan(phi2))) / (2 * math.pi * freq * V_rms**2)
\* c_microfarad = C * 1e6                      (for a nonzero denominator)
Capacitance(P, phi1, V_rms, freq) ==
    LET phi2 == acos(target_pf)
        C    == FDiv(FMul(P, FSub(tan(phi1), tan(phi2))), Denominator(V_rms, freq))
    IN  FMul(C, MicroPerUnit)

\* mutant: the branches of the conditional expression swapped
ReportedQ_swapped(Q, pf) == IF FLt(pf, One) THEN Zero ELSE round2(Q)

\* 'Q': round(Q, 2) if pf < 1 else 0
ReportedQ(Q, pf) == IF FLt(pf, One) THEN round2(Q) ELSE Zero

\* c_microfarad just before the return statement, for an input that passes
\* the power-factor check and does not divide by zero
c_microfarad(V_rms, I_rms, pf, freq) ==
    LET P == ActivePower(ApparentPower(V_rms, I_rms), pf)
    IN  IF NeedsCorrection(pf, P) THEN Capacitance(P, acos(pf), V_rms, freq) ELSE Zero

\* mutant: a result kept from the previous call is returned again
calculate_power_stale(V_rms, I_rms, pf, freq) ==
    IF other # <<>> THEN other[1].did
    ELSE IF InvalidPf(pf) THEN Raise("ValueError")
    ELSE LET S         == ApparentPower(V_rms, I_rms)
             P         == ActivePower(S, pf)
             Q         == ReactivePower(S, pf)
             theta     == acos(pf)
             theta_deg == degrees(theta)
         IN  IF NeedsCorrection(pf, P) /\ Denominator(V_rms, freq).m = 0
             THEN Raise("ZeroDivisionError")
             ELSE Return([S          |-> round2(S),
                          P          |-> round2(P),
                          Q          |-> ReportedQ(Q, pf),
                          theta_deg  |-> round2(theta_deg),
                          pf         |-> pf,
                          required_C |-> round2(c_microfarad(V_rms, I_rms, pf, freq))])

\* calculate_power(V_rms, I_rms, pf, freq): the exception it raises, or the
\* dictionary it returns
calculate_power(V_rms, I_rms, pf, freq) ==
    IF InvalidPf(pf) THEN Raise("ValueError")
    ELSE LET S         == ApparentPower(V_rms, I_rms)
             P         == ActivePower(S, pf)
             Q         == ReactivePower(S, pf)
             theta     == acos(pf)
             theta_deg == degrees(theta)
         IN  IF NeedsCorrection(pf, P) /\ Denominator(V_rms, freq).m = 0
             THEN Raise("ZeroDivisionError")
             ELSE Return([S          |-> round2(S),
                          P          |-> round2(P),
                          Q          |-> ReportedQ(Q, pf),
                          theta_deg  |-> round2(theta_deg),
                          pf         |-> pf,
                          required_C |-> round2(c_microfarad(V_rms, I_rms, pf, freq))])

\* plot_waveforms(V_rms, I_rms, pf, freq, cycles=3): the exception it raises, or
\* the quantities of the figure that plt.show() displays (the length of the
\* time axis, the phasor scale factor and the axis limit)
plot_waveforms(V_rms, I_rms, pf, freq) ==
    IF freq.m = 0 THEN Raise("ZeroDivisionError")                   \* cycles / freq
    ELSE IF FLt(One, pf) \/ FLt(pf, FNeg(One)) THEN Raise("ValueError")  \* math.acos(pf)
    ELSE IF I_rms.m = 0 THEN Raise("ZeroDivisionError")             \* v_len / I_rms
    ELSE Return([t_end        |-> FDiv(F(3 * Base, -7), freq),
                 theta        |-> acos(pf),
                 scale_factor |-> FMul(FDiv(V_rms, I_rms), F(7 * Base, -8)),
                 limit        |-> FMul(V_rms, F(13 * (Base \div 10), -7))])

(***************************************************************************)
(* Console input.  A line typed at a prompt is a sequence of characters.   *)
(***************************************************************************)
Digit == {"0", "1", "2", "3", "4", "5", "6", "7", "8", "9"}

DigitValue(c) ==
    CASE c = "0" -> 0 [] c = "1" -> 1 [] c = "2" -> 2 [] c = "3" -> 3 [] c = "4" -> 4
      [] c = "5" -> 5 [] c = "6" -> 6 [] c = "7" -> 7 [] c = "8" -> 8 [] c = "9" -> 9

\* the integer that the digits of s spell, decimal points skipped
RECURSIVE DigitsValue(_, _)
DigitsValue(s, acc) ==
    IF s = <<>> THEN acc
    ELSE IF Head(s) = "." THEN DigitsValue(Tail(s), acc)
    ELSE DigitsValue(Tail(s), acc * 10 + DigitValue(Head(s)))

\* float(s) for a string s: plain decimal literals [sign] digits [. digits] are
\* converted, any other string raises ValueError
float(s) ==
    LET signed == s # <<>> /\ Head(s) \in {"-", "+"}
        body   == IF signed THEN Tail(s) ELSE s
        dots   == {i \in 1..Len(body) : body[i] = "."}
        frac   == IF dots = {} THEN 0 ELSE Len(body) - (CHOOSE i \in dots : TRUE)
    IN  IF /\ \A i \in 1..Len(body) : body[i] \in Digit \cup {"."}
           /\ Cardinality(dots) <= 1
           /\ Len(body) > Cardinality(dots)
        THEN Return(Norm((IF signed /\ Head(s) = "-" THEN -1 ELSE 1) * DigitsValue(body, 0),
                         -frac))
        ELSE Raise("ValueError")

\* float(s or 50): the empty string is false, so the default 50 is converted
float_or_50(s) == IF s = <<>> THEN Return(F(5 * Base, -6)) ELSE float(s)

\* lines the user may type at each prompt
LinesV == {<<"2", "3", "0">>, <<"-", "2", "3", "0">>, <<"0">>, <<"a", "b", "c">>}

LinesI == {<<"5">>, <<"0", ".", "0", "0", "1">>, <<"0", ".", "0", "0", "0", "0", "1">>,
           <<"0">>, <<>>}

LinesPf == {<<"0", ".", "8">>, <<"0", ".", "9", "4">>, <<"0", ".", "9", "5">>,
            <<"0", ".", "9", "6">>, <<"1">>, <<"1", ".", "0">>, <<"0">>,
            <<"-", "0", ".", "5">>, <<"1", ".", "5">>, <<"p", "f">>}

LinesF == {<<"5", "0">>, <<>>, <<"0">>, <<"-", "5", "0">>, <<"5", "0", "H", "z">>}

\* the floats that the lines of a set convert to
Floats(lines) == {float(s).res[1] : s \in {x \in lines : float(x).exc = "None"}}

(***************************************************************************)
(* The main program (lines 87-121).                                        *)
(***************************************************************************)
Line(tag, val, exc) == [tag |-> tag, val |-> val, exc |-> exc]

Text(tag) == Line(tag, Zero, "")

\* the three print statements before the try statement
Banner == <<Text("rule"), Text("title"), Text("rule")>>

\* mutant: the suggestion decided on the power factor, not on required_C
SuggestionDue_by_pf(r) == FLt(r.pf, target_pf)

\* if results['required_C'] > 0
SuggestionDue(r) == r.required_C.m > 0

\* the print statements of the results block
ResultsBlock(r) ==
    <<Text("results_header"),
      Line("S", r.S, ""), Line("P", r.P, ""), Line("Q", r.Q, ""),
      Line("theta_deg", r.theta_deg, ""), Line("pf", r.pf, "")>>
    \o (IF SuggestionDue(r)
        THEN <<Text("suggestion_header"), Line("target_pf", target_pf, ""),
               Line("required_C", r.required_C, "")>>
        ELSE <<Text("optimal")>>)
    \o <<Text("results_footer")>>

\* mutant: the second clause catches arithmetic errors only
ExceptClause_arithmetic(exception) ==
    IF exception = "ValueError" THEN "error_invalid"
    ELSE IF exception = "ZeroDivisionError" THEN "error_unexpected"
    ELSE "uncaught"

\* the except clause that handles an exception raised in the try statement:
\* ValueError is caught by the first, every other Exception by the second
ExceptClause(exception) ==
    IF exception = "ValueError" THEN "error_invalid" ELSE "error_unexpected"

\* mutant: the renderer launched before the results are printed
Sequel_plot_first(statement) ==
    CASE statement = "banner" -> "V"
      [] statement = "V"      -> "I"
      [] statement = "I"      -> "pf"
      [] statement = "pf"     -> "f"
      [] statement = "f"      -> "calc"
      [] statement = "calc"   -> "plot"
      [] statement = "plot"   -> "print"
      [] statement = "print"  -> "done"

\* the statement that follows a statement of the try block that completed
Sequel(statement) ==
    CASE statement = "banner" -> "V"
      [] statement = "V"      -> "I"
      [] statement = "I"      -> "pf"
      [] statement = "pf"     -> "f"
      [] statement = "f"      -> "calc"
      [] statement = "calc"   -> "print"
      [] statement = "print"  -> "plot"
      [] statement = "plot"   -> "done"

\* plot_waveforms(V, I, pf, f): the arguments of the call
PlotArguments == <<V[1], I[1], PF[1], f[1]>>

\* input(prompt) writes the prompt
Prompted(tag) == Append(stdout, Text(tag))

\* mutant: after the message the statement that failed is run again
Except_retry(exception, out) ==
    /\ raised' = exception
    /\ stdout' = Append(out, Line(ExceptClause(exception), Zero, exception))
    /\ pc' = pc

\* an exception propagates out of the try block: the except clause prints its
\* message and the program ends
Except(exception, out) ==
    /\ raised' = exception
    /\ stdout' = Append(out, Line(ExceptClause(exception), Zero, exception))
    /\ pc' = "done"

Completed(out) ==
    /\ raised' = raised
    /\ stdout' = out
    /\ pc' = Sequel(pc)

Init ==
    /\ pc = "banner"
    /\ V = <<>> /\ I = <<>> /\ PF = <<>> /\ f = <<>>
    /\ results = <<>>
    /\ stdout = <<>>
    /\ calls = <<>>
    /\ renders = <<>>
    /\ raised = "None"
    /\ inputs = <<Zero, Zero, Zero, Zero>>
    /\ outcomes = <<>>
    /\ other = <<>>

PrintBanner ==
    /\ pc = "banner"
    /\ Completed(stdout \o Banner)
    /\ UNCHANGED <<V, I, PF, f, results, calls, renders, harness_vars>>

\* V = float(input("Enter RMS Voltage (V) [e.g. 230]: "))
InputV ==
    /\ pc = "V"
    /\ \/ \E s \in LinesV :
            LET r == float(s)
            IN  IF r.exc = "None"
                THEN V' = r.res /\ Completed(Prompted("prompt_V"))
                ELSE V' = V /\ Except(r.exc, Prompted("prompt_V"))
       \/ V' = V /\ Except("EOFError", Prompted("prompt_V"))
    /\ UNCHANGED <<I, PF, f, results, calls, renders, harness_vars>>

\* I = float(input("Enter RMS Current (A) [e.g. 5]: "))
InputI ==
    /\ pc = "I"
    /\ \/ \E s \in LinesI :
            LET r == float(s)
            IN  IF r.exc = "None"
                THEN I' = r.res /\ Completed(Prompted("prompt_I"))
                ELSE I' = I /\ Except(r.exc, Prompted("prompt_I"))
       \/ I' = I /\ Except("EOFError", Prompted("prompt_I"))
    /\ UNCHANGED <<V, PF, f, results, calls, renders, harness_vars>>

\* pf = float(input("Enter Power Factor (0.1 to 1.0) [e.g. 0.8]: "))
InputPf ==
    /\ pc = "pf"
    /\ \/ \E s \in LinesPf :
            LET r == float(s)
            IN  IF r.exc = "None"
                THEN PF' = r.res /\ Completed(Prompted("prompt_pf"))
                ELSE PF' = PF /\ Except(r.exc, Prompted("prompt_pf"))
       \/ PF' = PF /\ Except("EOFError", Prompted("prompt_pf"))
    /\ UNCHANGED <<V, I, f, results, calls, renders, harness_vars>>

\* f = float(input("Enter Frequency (Hz) [Enter for 50]: ") or 50)
InputF ==
    /\ pc = "f"
    /\ \/ \E s \in LinesF :
            LET r == float_or_50(s)
            IN  IF r.exc = "None"
                THEN f' = r.res /\ Completed(Prompted("prompt_f"))
                ELSE f' = f /\ Except(r.exc, Prompted("prompt_f"))
       \/ f' = f /\ Except("EOFError", Prompted("prompt_f"))
    /\ UNCHANGED <<V, I, PF, results, calls, renders, harness_vars>>

\* results = calculate_power(V, I, pf, f)
Calculate ==
    /\ pc = "calc"
    /\ calls' = Append(calls, <<V[1], I[1], PF[1], f[1]>>)
    /\ LET r == calculate_power(V[1], I[1], PF[1], f[1])
       IN  IF r.exc = "None"
           THEN results' = r.res /\ Completed(stdout)
           ELSE results' = results /\ Except(r.exc, stdout)
    /\ UNCHANGED <<V, I, PF, f, renders, harness_vars>>

\* the print statements of lines 100-113
PrintResults ==
    /\ pc = "print"
    /\ Completed(stdout \o ResultsBlock(results[1]))
    /\ UNCHANGED <<V, I, PF, f, results, calls, renders, harness_vars>>

\* plot_waveforms(V, I, pf, f)
Plot ==
    /\ pc = "plot"
    /\ LET r == plot_waveforms(PlotArguments[1], PlotArguments[2],
                               PlotArguments[3], PlotArguments[4])
       IN  /\ renders' = Append(renders, [args |-> PlotArguments, did |-> r])
           /\ IF r.exc = "None" THEN Completed(stdout) ELSE Except(r.exc, stdout)
    /\ UNCHANGED <<V, I, PF, f, results, calls, harness_vars>>

Next ==
    \/ PrintBanner
    \/ InputV
    \/ InputI
    \/ InputPf
    \/ InputF
    \/ Calculate
    \/ PrintResults
    \/ Plot

Spec == Init /\ [][Next]_vars

(***************************************************************************)
(* The calculator on its own: calculate_power is called repeatedly with    *)
(* one tuple of arguments, and with other arguments in between.            *)
(***************************************************************************)
MaxCalls == 3

Arguments == Floats(LinesV) \X Floats(LinesI) \X Floats(LinesPf) \X Floats(LinesF \ {<<>>})

OtherArguments ==
    {<<F(23000000, -5), F(50000000, -7), F(80000000, -8), F(50000000, -6)>>,
     <<F(23000000, -5), F(50000000, -7), One, F(50000000, -6)>>,
     <<F(23000000, -5), F(50000000, -7), Zero, Zero>>}

CalcInit ==
    /\ pc = "banner"
    /\ V = <<>> /\ I = <<>> /\ PF = <<>> /\ f = <<>>
    /\ results = <<>>
    /\ stdout = <<>>
    /\ calls = <<>>
    /\ renders = <<>>
    /\ raised = "None"
    /\ inputs \in Arguments
    /\ outcomes = <<>>
    /\ other = <<>>

\* calculate_power(*inputs)
Call ==
    /\ Len(outcomes) < MaxCalls
    /\ outcomes' = Append(outcomes, calculate_power(inputs[1], inputs[2], inputs[3], inputs[4]))
    /\ UNCHANGED <<inputs, other, main_vars>>

\* calculate_power(*a) for other arguments a
CallOther ==
    /\ Len(outcomes) < MaxCalls
    /\ \E a \in OtherArguments :
          other' = <<[args |-> a, did |-> calculate_power(a[1], a[2], a[3], a[4])]>>
    /\ UNCHANGED <<inputs, outcomes, main_vars>>

CalcNext == Call \/ CallOther

CalcSpec == CalcInit /\ [][CalcNext]_vars
(***************************************************************************)
(* Properties.                                                             *)
(***************************************************************************)
\* tests on the value of a normalised float, read off its mantissa and exponent
Positive(x) == x.m > 0

GreaterThanOne(x) == x.m > 0 /\ (x.e > -7 \/ (x.e = -7 /\ x.m > Base))

BelowTarget(x) == x.m <= 0 \/ x.e < -8 \/ (x.e = -8 /\ x.m < 95000000)

InUnitInterval(x) == Positive(x) /\ ~GreaterThanOne(x)

HalfCent == F(5 * Base, -10)

Magnitude(x) == F(Abs(x.m), x.e)

\* the harness has called the calculator; what the first call did
Called == outcomes # <<>>

Outcome == outcomes[1]

Returned == Called /\ Outcome.exc = "None"

Result == Outcome.res[1]

\* the sign of V_rms * I_rms, which is the sign of P for pf > 0
SignOfS == Sgn(inputs[1].m) * Sgn(inputs[2].m)

\* C1: calculate_power raises ValueError and returns nothing for every pf <= 0
\* and every pf > 1, whatever V, I and freq are, and raises no ValueError for
\* any pf in (0, 1].
C1_InvalidPfRejected ==
    Called =>
        /\ ~InUnitInterval(inputs[3]) => Outcome.exc = "ValueError" /\ Outcome.res = <<>>
        /\ InUnitInterval(inputs[3]) => Outcome.exc # "ValueError"

\* a power factor of 0 is rejected although the frequency is 0 too
C1_Witness ==
    /\ Called
    /\ inputs[3] = Zero /\ inputs[4] = Zero /\ SignOfS = 1
    /\ Outcome.exc = "ValueError"

\* the case of C2: 0 < pf < 0.95 and P > 0
CorrectionCase == Positive(inputs[3]) /\ BelowTarget(inputs[3]) /\ SignOfS = 1

\* C2 as stated: whenever 0 < pf < 0.95 and P > 0, the returned required_C is
\* greater than 0.
C2_RequiredCPositive == (Returned /\ CorrectionCase) => Result.required_C.m > 0

\* C2 amended: whenever 0 < pf < 0.95 and P > 0, the returned required_C is
\* c_microfarad rounded to two decimals: for freq > 0 it is >= 0, greater than 0
\* when c_microfarad exceeds 0.005 and 0 when c_microfarad is below 0.005; for
\* freq < 0 it is <= 0.
C2_RequiredCRounded ==
    (Returned /\ CorrectionCase) =>
        LET c == c_microfarad(inputs[1], inputs[2], inputs[3], inputs[4])
        IN  /\ inputs[4].m > 0 =>
                /\ Result.required_C.m >= 0
                /\ FLt(HalfCent, c) => Result.required_C.m > 0
                /\ FLt(c, HalfCent) => Result.required_C = Zero
            /\ inputs[4].m < 0 => Result.required_C.m <= 0

\* a capacitance below 0.005 microfarad is reported as 0 although P > 0
C2_Witness ==
    /\ Returned /\ CorrectionCase
    /\ inputs[4].m > 0
    /\ Result.P.m > 0
    /\ Result.required_C = Zero

\* C3 as stated: for every successful call Q >= 0, and Q = 0 exactly when pf = 1.
C3_QZeroIffUnity ==
    Returned => Result.Q.m >= 0 /\ (Result.Q = Zero <=> inputs[3] = One)

\* C3 amended: for every successful call, Q = 0 when pf = 1; when pf < 1, Q is
\* S * sqrt(1 - pf^2) rounded to two decimals: it has the sign of V * I (so
\* Q >= 0 whenever V * I >= 0), it is nonzero when |S * sqrt(1 - pf^2)| exceeds
\* 0.005 and 0 when that is below 0.005.
C3_QRounded ==
    Returned =>
        LET raw == Magnitude(ReactivePower(ApparentPower(inputs[1], inputs[2]), inputs[3]))
        IN  /\ inputs[3] = One => Result.Q = Zero
            /\ SignOfS >= 0 => Result.Q.m >= 0
            /\ SignOfS <= 0 => Result.Q.m <= 0
            /\ inputs[3] # One /\ FLt(HalfCent, raw) => Result.Q # Zero
            /\ inputs[3] # One /\ FLt(raw, HalfCent) => Result.Q = Zero

\* Q is 0 at unity power factor with a nonzero apparent power
C3_Witness ==
    /\ Returned
    /\ inputs[3] = One /\ SignOfS = 1
    /\ Result.S.m > 0 /\ Result.Q = Zero

\* C4: for every successful call with pf >= 0.95 the returned required_C is 0,
\* whatever V, I and freq are; required_C is other than 0 only when pf < 0.95
\* and P > 0.
C4_NoCorrectionAtTarget ==
    Returned =>
        /\ ~BelowTarget(inputs[3]) => Result.required_C = Zero
        /\ Result.required_C # Zero => BelowTarget(inputs[3]) /\ SignOfS = 1

\* pf = 0.96 with P > 0 needs no capacitor
C4_Witness ==
    /\ Returned
    /\ inputs[3] = F(96000000, -8) /\ SignOfS = 1 /\ inputs[4].m > 0
    /\ Result.required_C = Zero

\* C6: for every pf in (0, 1] and every V, I and freq, zero and negative values
\* included, calculate_power returns a result and raises no error.
C6_NoErrorForValidPf == (Called /\ InUnitInterval(inputs[3])) => Returned

Tags == [i \in 1..Len(stdout) |-> stdout[i].tag]

Count(tags) == Cardinality({i \in 1..Len(stdout) : stdout[i].tag \in tags})

PromptTags == {"prompt_V", "prompt_I", "prompt_pf", "prompt_f"}

ResultTags == {"results_header", "S", "P", "Q", "theta_deg", "pf", "suggestion_header",
               "target_pf", "required_C", "optimal", "results_footer"}

ErrorTags == {"error_invalid", "error_unexpected"}

NoPromptRepeated == \A t \in PromptTags : Count({t}) <= 1

\* C5: in a run in which a ValueError occurs (a non-numeric line at a prompt, or
\* a pf that the calculator rejects) no line of the results block is printed,
\* the renderer is not invoked, one error message is printed, no prompt is
\* repeated and the program has ended.
C5_InvalidInputEndsRun ==
    raised = "ValueError" =>
        /\ pc = "done"
        /\ Count(ResultTags) = 0
        /\ renders = <<>>
        /\ Count(ErrorTags) = 1 /\ Count({"uncaught"}) = 0
        /\ stdout[Len(stdout)] = Line("error_invalid", Zero, "ValueError")
        /\ NoPromptRepeated

\* the calculator rejected the power factor typed in
C5_Witness ==
    /\ raised = "ValueError"
    /\ Len(calls) = 1
    /\ PF # <<>> /\ ~InUnitInterval(PF[1])

\* the results block is on the console
BlockPrinted == Count({"results_footer"}) > 0

\* C7: when the results block is printed, the suggestion lines (target power
\* factor and required capacitor) are in it if and only if required_C > 0, the
\* 'no correction needed' line is in it otherwise, and whichever is printed
\* follows the five quantity lines.
C7_SuggestionIffRequiredC ==
    BlockPrinted =>
        LET k == CHOOSE i \in 1..Len(stdout) : stdout[i].tag = "results_header"
            r == results[1]
        IN  /\ Count({"results_header"}) = 1 /\ Count({"results_footer"}) = 1
            /\ <<Tags[k + 1], Tags[k + 2], Tags[k + 3], Tags[k + 4], Tags[k + 5]>>
                  = <<"S", "P", "Q", "theta_deg", "pf">>
            /\ Positive(r.required_C) =>
                  /\ <<Tags[k + 6], Tags[k + 7], Tags[k + 8], Tags[k + 9]>>
                        = <<"suggestion_header", "target_pf", "required_C", "results_footer">>
                  /\ stdout[k + 8].val = r.required_C
                  /\ Count({"optimal"}) = 0
            /\ ~Positive(r.required_C) =>
                  /\ <<Tags[k + 6], Tags[k + 7]>> = <<"optimal", "results_footer">>
                  /\ Count({"suggestion_header", "target_pf", "required_C"}) = 0

\* a block printed with the suggestion lines, for a required_C above 0
C7_Witness ==
    /\ BlockPrinted
    /\ Positive(results[1].required_C)
    /\ Count({"required_C"}) = 1

\* the prompts on the console, in the order written
RECURSIVE PromptsOf(_)
PromptsOf(lines) ==
    IF lines = <<>> THEN <<>>
    ELSE IF Head(lines).tag \in PromptTags THEN <<Head(lines).tag>> \o PromptsOf(Tail(lines))
    ELSE PromptsOf(Tail(lines))

PromptOrder == <<"prompt_V", "prompt_I", "prompt_pf", "prompt_f">>

\* C8: the four inputs are read in the order voltage, current, power factor,
\* frequency; then calculate_power is called, once, with them; then the whole
\* results block is printed; then the renderer is invoked, at most once, only
\* after the block is complete, with the arguments the calculator was given.
C8_StepsInOrder ==
    /\ PromptsOf(stdout) = SubSeq(PromptOrder, 1, Len(PromptsOf(stdout)))
    /\ Len(calls) <= 1 /\ Len(renders) <= 1
    /\ calls # <<>> =>
          /\ PromptsOf(stdout) = PromptOrder
          /\ V # <<>> /\ I # <<>> /\ PF # <<>> /\ f # <<>>
          /\ calls[1] = <<V[1], I[1], PF[1], f[1]>>
    /\ Count(ResultTags) > 0 => calls # <<>> /\ results # <<>> /\ BlockPrinted
    /\ renders # <<>> =>
          /\ BlockPrinted
          /\ calls # <<>> /\ renders[1].args = calls[1]

\* a run that reaches plt.show()
C8_Witness ==
    /\ pc = "done"
    /\ renders # <<>> /\ renders[1].did.exc = "None"
    /\ BlockPrinted

====
